---- MODULE Spec2Model ----
(***************************************************************************)
(* Model of the job scheduler and repository-commit engine                 *)
(* (src/src/jobscheduler.py, buildjob.py, buildrequest.py, repository.py). *)
(*                                                                         *)
(* Threads: one submitter per add_job call, one worker per _BuilderQueue,  *)
(* the commit worker (JobScheduler.run) and the thread calling stop().     *)
(* Strings are sequences of tokens; a regular expression is the set of     *)
(* strings it fully matches.                                               *)
(***************************************************************************)
EXTENDS Integers, Sequences, FiniteSets, TLC

\* ------------------------------------------------------------------ bounds
MaxJobs == 2

JobIds == 1..MaxJobs

\* --------------------------------------------------------- python values
None == 0
NoJob == [none |-> TRUE]
NoQueue == "none"

\* ------------------------------------------------------------ configuration
\* config['builders']: builder name -> architecture, in insertion order
BuilderNames == <<"b1", "b2", "b3">>
BuilderArch == [b1 |-> "x86", b2 |-> "arm", b3 |-> "x86"]
BuilderSet == {BuilderNames[i] : i \in 1..Len(BuilderNames)}

\* config['repositories']: name -> architectures, in insertion order
RepoNames == <<"main", "test">>
RepoArchs == [main |-> <<"x86", "arm">>, test |-> <<"x86">>]

SeqToSet(s) == {s[i] : i \in 1..Len(s)}

\* config['rules'] of the scheduler under test, in insertion order.  The
\* third rule is shadowed by the second one for prj_name "baz".
RuleCfgs ==
  << [patterns |-> [prj_name |-> {"foo"}], upload |-> "main"],
     [patterns |-> [prj_name |-> {"bar", "baz"}], upload |-> "main",
      built_architectures |-> <<"arm">>],
     [patterns |-> [prj_name |-> {"baz"}], upload |-> "test",
      built_architectures |-> <<"x86">>],
     [patterns |-> [prj_name |-> {"ppc"}], upload |-> "main",
      built_architectures |-> <<"x86", "ppc">>],
     [patterns |-> [prj_name |-> {"tst"}], upload |-> "test",
      built_architectures |-> <<"arm">>,
      dependency_repositories |-> <<"deps">>] >>

\* -------------------------------------------------------------- FilterRule
\* FilterRule.__init__
FilterRule(rule_cfg) ==
  [regex_map |-> IF "patterns" \in DOMAIN rule_cfg
                 THEN rule_cfg.patterns ELSE <<>>,
   upload_repo |-> rule_cfg.upload,
   deps_repos |-> IF "dependency_repositories" \in DOMAIN rule_cfg
                  THEN rule_cfg.dependency_repositories ELSE <<>>,
   archs |-> IF "built_architectures" \in DOMAIN rule_cfg
             THEN rule_cfg.built_architectures
             ELSE RepoArchs[rule_cfg.upload]]

\* FilterRule.load_rules; the ValueError of a rule-less configuration with
\* several repositories is the value NoJob (no scheduler is constructed).
load_rules(cfgs) ==
  IF cfgs # <<>>
  THEN [i \in 1..Len(cfgs) |-> FilterRule(cfgs[i])]
  ELSE IF Len(RepoNames) > 1
       THEN NoJob
       ELSE << FilterRule([upload |-> RepoNames[1]]) >>

\* getattr(job, key, None) on the string attributes of a BuildJob: <<v>> for
\* the value v, <<>> for None
GetAttr(job, key) ==
  IF key \in {"prj_name", "version"} THEN <<job[key]>> ELSE <<>>

\* FilterRule.match: every regex fully matches a non-empty attribute
match(rule, job) ==
  \A key \in DOMAIN rule.regex_map :
     LET attrvalue == GetAttr(job, key)
     IN  /\ attrvalue # <<>>
         /\ attrvalue[1] # ""
         /\ attrvalue[1] \in rule.regex_map[key]

\* BuildJob.__init__: the fields add_job reads, defaults copied from request
BuildJob(request, name, version) ==
  [prj_name |-> name, version |-> version, request |-> request,
   do_upload |-> request.do_upload,
   deps_repos |-> request.deps_repos,
   upload_repo |-> request.upload_repo,
   archs |-> request.archs]

\* mutant: the rule loop has no break, the last matching rule wins
RECURSIVE LastMatch(_, _, _)
LastMatch(rs, job, i) ==
  IF i > Len(rs) THEN 0
  ELSE LET later == LastMatch(rs, job, i + 1)
       IN  IF later # 0 THEN later
           ELSE IF match(rs[i], job) THEN i ELSE 0

\* The rule loop of add_job: index of the rule that is applied, 0 if none
RECURSIVE FirstMatch(_, _, _)
FirstMatch(rs, job, i) ==
  IF i > Len(rs) THEN 0
  ELSE IF match(rs[i], job) THEN i
  ELSE FirstMatch(rs, job, i + 1)

ApplyRules(rs, job) ==
  LET i == FirstMatch(rs, job, 1)
  IN  IF i = 0 THEN job
      ELSE [job EXCEPT !.upload_repo = rs[i].upload_repo,
                       !.archs = rs[i].archs,
                       !.deps_repos = rs[i].deps_repos]

\* ------------------------------------------------------------------ strings
\* mutant: only the last message is reported
JoinLast(msgs) == IF msgs = <<>> THEN <<>> ELSE msgs[Len(msgs)]

\* '\n'.join(msgs)
RECURSIVE Join(_)
Join(msgs) ==
  IF msgs = <<>> THEN <<>>
  ELSE IF Len(msgs) = 1 THEN msgs[1]
  ELSE msgs[1] \o <<"\n">> \o Join(Tail(msgs))

\* t is a substring of s
Contains(s, t) ==
  \E i \in 1..(Len(s) - Len(t) + 1) : SubSeq(s, i, i + Len(t) - 1) = t

\* _BuilderQueue._process_job: the two messages
SucceedMsg(b) == <<"build on", b, "succeed">>
FailedMsg(b, cause) == <<"build on", b, "failed:", cause>>

\* ------------------------------------------------------------- Repository
\* reply lines of the mmpack-modifyrepo subprocess, split into tokens; the
\* empty line is what readline() returns when the subprocess is gone
Replies == { <<"OK">>, <<"OK", "done">>, <<"ERR", "disk full">>, <<>> }

\* Repository._send_cmd: TRUE iff no exception is raised
ReplyOK(reply) == reply # <<>> /\ reply[1] = "OK"

\* str(exception) of the exception _send_cmd raises
SendCmdError(cmd, name, reply) ==
  IF reply = <<>> THEN <<"list index out of range">>
  ELSE <<"Failed to", cmd, "in", name, ":">> \o Tail(reply)

\* Repository.name as built by JobScheduler.__init__
RepoName(upload_repo, arch) == upload_repo \o "/" \o arch

\* self.repos[job.upload_repo][arch] raises KeyError
RepoMissing(upload_repo, arch) ==
  \/ upload_repo \notin SeqToSet(RepoNames)
  \/ arch \notin SeqToSet(RepoArchs[upload_repo])

\* ------------------------------------------------------------------ state
VARIABLES
  rules,      \* JobScheduler.rules, in insertion order
  job,        \* job[j]: the BuildJob j, NoJob before it is created
  addpc,      \* addpc[j]: position of the add_job(j) call
  picked,     \* picked[j]: builder_queues list of _schedule_job_for_build
  nput,       \* nput[j]: number of add_scheduled_job calls made for j
  sj,         \* sj[j]: the _BuildScheduledJob of j, NoJob before creation
  bq,         \* bq[b]: _BuilderQueue.queue of builder b
  bpc,        \* bpc[b]: position of the worker thread of builder b
  bcur,       \* bcur[b]: scheduled_job the worker of b is processing
  ran,        \* history: ran[j] = the builder.build(j) calls and their end
  manifests,  \* manifests[j]: version key of the manifests in j's pkgdir
  cq,         \* JobScheduler.queue
  cpc,        \* position of the commit worker (JobScheduler.run)
  ccur,       \* job of the scheduled_job the commit worker processes
  cjob,       \* the local variable job of JobScheduler.run
  cidx,       \* loop index of the commit worker
  modified,   \* modified_repos of _process_build_done (their archs)
  cexc,       \* str(exception) caught by _process_build_done
  cnote,      \* arguments of the pending job.notify_result call
  sent,       \* history: commands written to the repository subprocesses
  notes,      \* history: notes[j] = notify_result invocations for job j
  stoppc,     \* position of the thread calling JobScheduler.stop
  stopidx,    \* index of the builder queue being stopped
  enq         \* history: enq[b] = the items put on the queue of b, in order

vars == << rules, job, addpc, picked, nput, sj, bq, bpc, bcur, ran,
           manifests, cq, cpc, ccur, cjob, cidx, modified, cexc, cnote, sent,
           notes, stoppc, stopidx, enq >>

addVars == << job, addpc, picked, nput >>
builderVars == << bpc, bcur, ran, manifests >>
commitVars == << cpc, ccur, cjob, cidx, modified, cexc, cnote, sent,
                 notes >>
stopVars == << stoppc, stopidx >>

\* ------------------------------------------------------------------- inputs
\* BuildRequest.__init__ sets upload_repo = '' and archs = []; do_upload is
\* set by the event source
Requests ==
  { [do_upload |-> u, upload_repo |-> "", archs |-> <<>>,
     deps_repos |-> <<>>] : u \in BOOLEAN }

PrjNames == {"foo", "bar", "ppc", "tst", ""}
JobVersions == {"1.0"}

\* the (name, source, version) keys a built manifest may carry
ManifestKeys == {"m1", "m2"}

\* what builder.build does: raise, or leave a manifest in the pkgdir
BuildOutcomes == {"raise"} \cup ManifestKeys

\* the state after JobScheduler.__init__, but for the builder queues
InitRest ==
  /\ job = [j \in JobIds |-> NoJob]
  /\ addpc = [j \in JobIds |-> "none"]
  /\ picked = [j \in JobIds |-> <<>>]
  /\ nput = [j \in JobIds |-> 0]
  /\ sj = [j \in JobIds |-> NoJob]
  /\ enq = bq
  /\ bpc = [b \in BuilderSet |-> "init"]
  /\ bcur = [b \in BuilderSet |-> None]
  /\ ran = [j \in JobIds |-> <<>>]
  /\ manifests = [j \in JobIds |-> <<>>]
  /\ cq = <<>>
  /\ cpc = "init"
  /\ ccur = None
  /\ cjob = None
  /\ cidx = 0
  /\ modified = <<>>
  /\ cexc = <<>>
  /\ cnote = NoJob
  /\ sent = <<>>
  /\ notes = [j \in JobIds |-> <<>>]
  /\ stoppc = "none"
  /\ stopidx = 0

InitState ==
  /\ bq = [b \in BuilderSet |-> <<>>]
  /\ InitRest

Init == rules = load_rules(RuleCfgs) /\ InitState

\* ------------------------------------------------------- pure operations
\* mutant: an architecture nobody builds is given to every builder
MatchingOrAll(arch) ==
  IF \E i \in 1..Len(BuilderNames) : BuilderArch[BuilderNames[i]] = arch
  THEN SelectSeq(BuilderNames, LAMBDA b : BuilderArch[b] = arch)
  ELSE BuilderNames

\* builders whose arch is the wanted one, in builder_queues order
Matching(arch) == SelectSeq(BuilderNames, LAMBDA b : BuilderArch[b] = arch)

\* mutant: the first matching builder queue, whatever the queue depths
PickFirstMatching(arch, queues) ==
  IF Matching(arch) = <<>> THEN NoQueue ELSE Matching(arch)[1]

\* JobScheduler._pick_builder_queue_for_arch: NoQueue stands for the
\* RuntimeError; the sort by qsize is stable
PickBuilderQueueForArch(arch, queues) ==
  LET m == Matching(arch)
  IN  IF m = <<>> THEN NoQueue
      ELSE m[CHOOSE i \in 1..Len(m) :
               /\ \A k \in 1..(i - 1) : Len(queues[m[k]]) > Len(queues[m[i]])
               /\ \A k \in (i + 1)..Len(m) :
                    Len(queues[m[k]]) >= Len(queues[m[i]])]

\* mutant: the queue hands out its most recent item
QueueGetLast(q) == [item |-> q[Len(q)], rest |-> SubSeq(q, 1, Len(q) - 1)]

\* queue.Queue: put() appends, get() takes the oldest item
QueuePut(q, item) == Append(q, item)
QueueGet(q) == [item |-> Head(q), rest |-> Tail(q)]

\* mutant: the counter starts one too high
BuildScheduledJobOneMore(num_build) ==
  [num_active_build |-> num_build + 1, feedback_msgs |-> <<>>,
   success |-> TRUE]

\* _BuildScheduledJob.__init__
BuildScheduledJob(num_build) ==
  [num_active_build |-> num_build, feedback_msgs |-> <<>>, success |-> TRUE]

\* mutant: success is overwritten by the last report instead of latched
BuildDoneLastWins(s, success, msg) ==
  [s EXCEPT !.feedback_msgs = Append(@, msg),
            !.success = success,
            !.num_active_build = @ - 1]

\* mutant: a report counts for two sub-builds
BuildDoneCountsTwice(s, success, msg) ==
  [s EXCEPT !.feedback_msgs = Append(@, msg),
            !.success = IF success THEN @ ELSE FALSE,
            !.num_active_build = IF @ >= 2 THEN @ - 2 ELSE @ - 1]

\* _BuildScheduledJob.build_done, the update made under self.lock
BuildDone(s, success, msg) ==
  [s EXCEPT !.feedback_msgs = Append(@, msg),
            !.success = IF success THEN @ ELSE FALSE,
            !.num_active_build = @ - 1]

\* BuildJob.merge_manifests: ok, or the str() of the exception raised
MergeManifests(ms) ==
  IF \E i \in 1..Len(ms) : ms[i] # ms[1]
  THEN [ok |-> FALSE, msg |-> <<"merging inconsistent manifest">>]
  ELSE IF ms = <<>>
  THEN [ok |-> FALSE, msg |-> <<"'name'">>]
  ELSE [ok |-> TRUE, msg |-> <<ms[1]>>]

\* ------------------------------------------------------------------ add_job
\* mutant: add_job does not test job.archs
AddJobNextNoDrop(archs, srcpkg_done) ==
  IF ~srcpkg_done THEN "cancelled" ELSE "pick"

\* add_job after the rule loop: the two early returns, or the call of
\* _schedule_job_for_build
AddJobNext(archs, srcpkg_done) ==
  IF archs = <<>> THEN "dropped"
  ELSE IF ~srcpkg_done THEN "cancelled"
  ELSE "pick"

\* add_job up to the call of _schedule_job_for_build; srcpkg_done is the
\* value job.make_srcpkg() returns
AddJobStart(j, request, name, version, srcpkg_done) ==
  /\ addpc[j] = "none"
  /\ \A k \in 1..(j - 1) : addpc[k] # "none"
  /\ LET jb == ApplyRules(rules, BuildJob(request, name, version))
     IN  /\ job' = [job EXCEPT ![j] = jb]
         /\ addpc' = [addpc EXCEPT ![j] = AddJobNext(jb.archs, srcpkg_done)]
  /\ UNCHANGED << rules, picked, nput, sj, bq, enq, cq >>
  /\ UNCHANGED << builderVars, commitVars, stopVars >>

\* _schedule_job_for_build: one element of the builder_queues list
\* comprehension; the _BuildScheduledJob is created after the last one
\* (with an empty job.archs the list is empty and nothing is enqueued)
AddJobPick(j) ==
  /\ addpc[j] = "pick"
  /\ LET n == Len(job[j].archs)
     IN  IF n = 0
         THEN /\ sj' = [sj EXCEPT ![j] = BuildScheduledJob(0)]
              /\ addpc' = [addpc EXCEPT ![j] = "done"]
              /\ UNCHANGED picked
         ELSE LET arch == job[j].archs[Len(picked[j]) + 1]
                  q == PickBuilderQueueForArch(arch, bq)
              IN  IF q = NoQueue
                  THEN /\ addpc' = [addpc EXCEPT ![j] = "failed"]
                       /\ UNCHANGED << picked, sj >>
                  ELSE /\ picked' = [picked EXCEPT ![j] = Append(@, q)]
                       /\ IF Len(picked[j]) + 1 = n
                          THEN /\ sj' = [sj EXCEPT ![j] =
                                           BuildScheduledJob(n)]
                               /\ addpc' = [addpc EXCEPT ![j] = "put"]
                          ELSE UNCHANGED << sj, addpc >>
  /\ UNCHANGED << rules, job, nput, bq, enq, cq >>
  /\ UNCHANGED << builderVars, commitVars, stopVars >>

\* _schedule_job_for_build: one builder_queue.add_scheduled_job call
AddJobPut(j) ==
  /\ addpc[j] = "put"
  /\ LET b == picked[j][nput[j] + 1]
     IN  /\ bq' = [bq EXCEPT ![b] = QueuePut(@, j)]
         /\ enq' = [enq EXCEPT ![b] = Append(@, j)]
  /\ nput' = [nput EXCEPT ![j] = @ + 1]
  /\ addpc' = [addpc EXCEPT ![j] =
                 IF nput[j] + 1 = Len(picked[j]) THEN "done" ELSE "put"]
  /\ UNCHANGED << rules, job, picked, sj, cq >>
  /\ UNCHANGED << builderVars, commitVars, stopVars >>

\* ------------------------------------------------------------ _BuilderQueue
\* _BuilderQueue.run: queue.get() and the sentinel test
BuilderGet(b) ==
  /\ bpc[b] = "get"
  /\ bq[b] # <<>>
  /\ bq' = [bq EXCEPT ![b] = QueueGet(@).rest]
  /\ IF QueueGet(bq[b]).item = None
     THEN /\ bpc' = [bpc EXCEPT ![b] = "stopped"]
          /\ UNCHANGED bcur
     ELSE /\ bpc' = [bpc EXCEPT ![b] = "build"]
          /\ bcur' = [bcur EXCEPT ![b] = QueueGet(bq[b]).item]
  /\ UNCHANGED << rules, sj, cq, enq, ran, manifests >>
  /\ UNCHANGED << addVars, commitVars, stopVars >>

\* mutant: the except clause forgets success = False
BuildResultNoFailure(b, raised) ==
  [success |-> TRUE,
   msg |-> IF raised THEN FailedMsg(b, "boom") ELSE SucceedMsg(b)]

\* _BuilderQueue._process_job: the arguments of its build_done call, from
\* whether builder.build raised
BuildResult(b, raised) ==
  IF raised THEN [success |-> FALSE, msg |-> FailedMsg(b, "boom")]
  ELSE [success |-> TRUE, msg |-> SucceedMsg(b)]

\* _BuilderQueue._process_job with the build_done call it ends with.
\* Manifest keys are only ever compared for equality, so the first manifest
\* left in a pkgdir is named "m1".
ProcessJob(b, outcome) ==
  /\ bpc[b] = "build"
  /\ manifests[bcur[b]] = <<>> => outcome # "m2"
  /\ LET j == bcur[b]
         raised == outcome = "raise"
         success == BuildResult(b, raised).success
         msg == BuildResult(b, raised).msg
         s == BuildDone(sj[j], success, msg)
     IN  /\ ran' = [ran EXCEPT ![j] =
                      Append(@, [builder |-> b, ok |-> ~raised,
                                 msg |-> msg])]
         /\ manifests' = [manifests EXCEPT ![j] =
                            IF raised THEN @ ELSE Append(@, outcome)]
         /\ sj' = [sj EXCEPT ![j] = s]
         /\ cq' = IF s.num_active_build = 0 THEN QueuePut(cq, j) ELSE cq
  /\ bpc' = [bpc EXCEPT ![b] = "get"]
  /\ bcur' = [bcur EXCEPT ![b] = None]
  /\ UNCHANGED << rules, bq, enq >>
  /\ UNCHANGED << addVars, commitVars, stopVars >>

\* ------------------------------------------------------------ JobScheduler
\* the commit worker forgets the locals of _process_build_done; the
\* locals of run() are kept until the next queue.get() returns, or until
\* the thread ends
ClearLocals ==
  /\ ccur' = None
  /\ cidx' = 0
  /\ modified' = <<>>
  /\ cexc' = <<>>
  /\ cnote' = NoJob

\* the arguments of the job.notify_result call that follows a caught
\* exception once the rollback loop is over
FailureNote(msg) == [success |-> FALSE, message |-> msg]

\* mutant: do_upload is not looked at
ProcessBuildDoneAlwaysUpload(success, do_upload, feedback, manifest) ==
  IF ~success
  THEN [pc |-> "notify", exc |-> <<>>,
        note |-> [success |-> FALSE, message |-> feedback]]
  ELSE IF ~manifest.ok
  THEN [pc |-> "notify", exc |-> manifest.msg,
        note |-> FailureNote(manifest.msg)]
  ELSE [pc |-> "add", exc |-> <<>>, note |-> NoJob]

\* _process_build_done up to its first call to the outside: the next
\* position of the commit worker with the notification or exception it holds
ProcessBuildDone(success, do_upload, feedback, manifest) ==
  IF ~success
  THEN [pc |-> "notify", exc |-> <<>>,
        note |-> [success |-> FALSE, message |-> feedback]]
  ELSE IF ~do_upload
  THEN [pc |-> "notify", exc |-> <<>>,
        note |-> [success |-> TRUE,
                  message |-> <<"Packages upload skipped">>]]
  ELSE IF ~manifest.ok
  THEN [pc |-> "notify", exc |-> manifest.msg,
        note |-> FailureNote(manifest.msg)]
  ELSE [pc |-> "add", exc |-> <<>>, note |-> NoJob]

\* mutant: the commit sweep starts after the first accepted ADD
AddLoopNextEarly(i, n) == [pc |-> "commit", idx |-> 1]

\* the add loop after an accepted ADD: position and index that follow
AddLoopNext(i, n) ==
  IF i = n THEN [pc |-> "commit", idx |-> 1]
  ELSE [pc |-> "add", idx |-> i + 1]

\* mutant: the result is notified after the first accepted COMMIT
CommitLoopNextEarly(i, n) == [pc |-> "notify", idx |-> i]

\* mutant: the last recorded repository is not sent COMMIT
CommitLoopNextSkipsLast(i, n) ==
  IF i >= n - 1 THEN [pc |-> "notify", idx |-> i]
  ELSE [pc |-> "commit", idx |-> i + 1]

\* the commit loop after an accepted COMMIT
CommitLoopNext(i, n) ==
  IF i = n THEN [pc |-> "notify", idx |-> i]
  ELSE [pc |-> "commit", idx |-> i + 1]

\* the rollback loop after an accepted ROLLBACK
RollbackLoopNext(i, n) ==
  IF i = n THEN [pc |-> "notify", idx |-> i]
  ELSE [pc |-> "rollback", idx |-> i + 1]

\* JobScheduler.run: queue.get(), the sentinel test, and the entry of
\* _process_build_done
CommitGet ==
  /\ cpc = "get"
  /\ cq # <<>>
  /\ cq' = QueueGet(cq).rest
  /\ IF QueueGet(cq).item = None
     THEN /\ cpc' = "stopped"
          /\ cjob' = None
          /\ UNCHANGED << ccur, cidx, modified, cexc, cnote >>
     ELSE LET j == QueueGet(cq).item
              d == ProcessBuildDone(sj[j].success, job[j].do_upload,
                                    Join(sj[j].feedback_msgs),
                                    MergeManifests(manifests[j]))
          IN  /\ ccur' = j
              /\ cjob' = j
              /\ modified' = <<>>
              /\ cpc' = d.pc
              /\ cexc' = d.exc
              /\ cnote' = d.note
              /\ cidx' = 1
  /\ UNCHANGED << rules, sj, bq, enq, sent, notes >>
  /\ UNCHANGED << addVars, builderVars, stopVars >>

\* one command written to a repository subprocess, with the reply's verdict
Command(j, arch, verb, reply) ==
  [job |-> j, repo |-> job[j].upload_repo, arch |-> arch, verb |-> verb,
   ok |-> ReplyOK(reply)]

\* _process_build_done: one iteration of the add loop
CommitAdd(reply) ==
  /\ cpc = "add"
  /\ LET j == ccur
         arch == job[j].archs[cidx]
         repo == job[j].upload_repo
     IN  IF RepoMissing(repo, arch)
         THEN /\ cexc' = <<"'", arch, "'">>
              /\ cidx' = 1
              /\ IF modified = <<>>
                 THEN /\ cnote' = FailureNote(<<"'", arch, "'">>)
                      /\ cpc' = "notify"
                 ELSE /\ cpc' = "rollback"
                      /\ UNCHANGED cnote
              /\ UNCHANGED << modified, sent >>
         ELSE /\ modified' = Append(modified, arch)
              /\ sent' = Append(sent, Command(j, arch, "ADD", reply))
              /\ IF ReplyOK(reply)
                 THEN /\ cpc' = AddLoopNext(cidx, Len(job[j].archs)).pc
                      /\ cidx' = AddLoopNext(cidx, Len(job[j].archs)).idx
                      /\ UNCHANGED cexc
                 ELSE /\ cexc' = SendCmdError("ADD", RepoName(repo, arch),
                                              reply)
                      /\ cpc' = "rollback"
                      /\ cidx' = 1
              /\ UNCHANGED cnote
  /\ UNCHANGED << rules, sj, bq, enq, cq, ccur, cjob, notes >>
  /\ UNCHANGED << addVars, builderVars, stopVars >>

\* _process_build_done: one iteration of the rollback loop of the handler
CommitRollback(reply) ==
  /\ cpc = "rollback"
  /\ sent' = Append(sent, Command(ccur, modified[cidx], "ROLLBACK", reply))
  /\ IF ReplyOK(reply)
     THEN /\ cpc' = RollbackLoopNext(cidx, Len(modified)).pc
          /\ cidx' = RollbackLoopNext(cidx, Len(modified)).idx
          /\ cnote' = IF cpc' = "notify" THEN FailureNote(cexc) ELSE cnote
          /\ UNCHANGED << ccur, cjob, modified, cexc >>
     ELSE cpc' = "dead" /\ cjob' = None /\ ClearLocals
  /\ UNCHANGED << rules, sj, bq, enq, cq, notes >>
  /\ UNCHANGED << addVars, builderVars, stopVars >>

\* _process_build_done: one iteration of the commit loop
CommitCommit(reply) ==
  /\ cpc = "commit"
  /\ sent' = Append(sent, Command(ccur, modified[cidx], "COMMIT", reply))
  /\ IF ReplyOK(reply)
     THEN /\ cpc' = CommitLoopNext(cidx, Len(modified)).pc
          /\ cidx' = CommitLoopNext(cidx, Len(modified)).idx
          /\ cnote' = IF cpc' = "notify" THEN [success |-> TRUE] ELSE cnote
          /\ UNCHANGED << ccur, cjob, modified, cexc >>
     ELSE cpc' = "dead" /\ cjob' = None /\ ClearLocals
  /\ UNCHANGED << rules, sj, bq, enq, cq, notes >>
  /\ UNCHANGED << addVars, builderVars, stopVars >>

\* the job.notify_result call _process_build_done ends with; the hook of
\* the request may raise
CommitNotify(raises) ==
  /\ cpc = "notify"
  /\ notes' = [notes EXCEPT ![ccur] = Append(@, cnote)]
  /\ cpc' = IF raises THEN "dead" ELSE "get"
  /\ cjob' = IF raises THEN None ELSE cjob
  /\ ClearLocals
  /\ UNCHANGED << rules, sj, bq, enq, cq, sent >>
  /\ UNCHANGED << addVars, builderVars, stopVars >>

\* JobScheduler.start
Start ==
  /\ cpc = "init"
  /\ cpc' = "get"
  /\ bpc' = [b \in BuilderSet |-> "get"]
  /\ UNCHANGED << rules, sj, bq, enq, cq, bcur, ran, manifests >>
  /\ UNCHANGED << ccur, cjob, cidx, modified, cexc, cnote, sent, notes >>
  /\ UNCHANGED << addVars, stopVars >>

\* JobScheduler.stop is called: _BuilderQueue.stop of the first builder
\* queue puts the sentinel and waits in self.join()
StopCall ==
  /\ stoppc = "none"
  /\ cpc # "init"
  /\ bq' = [bq EXCEPT ![BuilderNames[1]] = QueuePut(@, None)]
  /\ enq' = [enq EXCEPT ![BuilderNames[1]] = Append(@, None)]
  /\ stoppc' = "join"
  /\ stopidx' = 1
  /\ UNCHANGED << rules, sj, cq >>
  /\ UNCHANGED << addVars, builderVars, commitVars >>

\* _BuilderQueue.stop: self.join() returns once the builder worker has
\* ended; stop goes on to the put(None) of the next builder queue, or of
\* the commit queue after the last one
StopJoin ==
  /\ stoppc = "join"
  /\ bpc[BuilderNames[stopidx]] = "stopped"
  /\ IF stopidx = Len(BuilderNames)
     THEN /\ cq' = QueuePut(cq, None)
          /\ stoppc' = "cjoin"
          /\ UNCHANGED << bq, enq, stopidx >>
     ELSE /\ bq' = [bq EXCEPT ![BuilderNames[stopidx + 1]] =
                      QueuePut(@, None)]
          /\ enq' = [enq EXCEPT ![BuilderNames[stopidx + 1]] =
                       Append(@, None)]
          /\ stopidx' = stopidx + 1
          /\ UNCHANGED << cq, stoppc >>
  /\ UNCHANGED << rules, sj >>
  /\ UNCHANGED << addVars, builderVars, commitVars >>

\* JobScheduler.stop: self.join() returns once the commit worker has ended
StopCommitJoin ==
  /\ stoppc = "cjoin"
  /\ cpc \in {"stopped", "dead"}
  /\ stoppc' = "done"
  /\ UNCHANGED << rules, sj, bq, enq, cq, stopidx >>
  /\ UNCHANGED << addVars, builderVars, commitVars >>

\* ------------------------------------------------------------ specification
Next ==
  \/ \E j \in JobIds, request \in Requests, name \in PrjNames,
        version \in JobVersions, srcpkg_done \in BOOLEAN :
        AddJobStart(j, request, name, version, srcpkg_done)
  \/ \E j \in JobIds : AddJobPick(j)
  \/ \E j \in JobIds : AddJobPut(j)
  \/ \E b \in BuilderSet : BuilderGet(b)
  \/ \E b \in BuilderSet, outcome \in BuildOutcomes : ProcessJob(b, outcome)
  \/ CommitGet
  \/ \E reply \in Replies : CommitAdd(reply)
  \/ \E reply \in Replies : CommitRollback(reply)
  \/ \E reply \in Replies : CommitCommit(reply)
  \/ \E raises \in BOOLEAN : CommitNotify(raises)
  \/ Start
  \/ StopCall
  \/ StopJoin
  \/ StopCommitJoin

Spec == Init /\ [][Next]_vars

\* --------------------------------------------- rule application on its own
\* Bounded universe of rule configurations and of requests for the check of
\* the rule loop of add_job.
MaxRules == 2

RuleCfgUniverse ==
  { [patterns |-> [prj_name |-> {"foo"}], upload |-> "main"],
    [patterns |-> [prj_name |-> {"foo", "bar"}], upload |-> "test",
     built_architectures |-> <<"x86">>],
    [upload |-> "main", built_architectures |-> <<"arm">>,
     dependency_repositories |-> <<"deps">>],
    [patterns |-> [prj_name |-> {"foo", ""}, version |-> {"1.0"}],
     upload |-> "test", built_architectures |-> <<>>],
    [patterns |-> [branch |-> {"master"}], upload |-> "main"] }

RuleCfgSeqs ==
  UNION { [1..n -> RuleCfgUniverse] : n \in 1..MaxRules }

AllRequests ==
  { [do_upload |-> TRUE, upload_repo |-> u, archs |-> a, deps_repos |-> d] :
      u \in {"", "main"}, a \in {<<>>, <<"x86">>}, d \in {<<>>, <<"old">>} }

AllPrjNames == {"foo", "bar", "qux", ""}
AllVersions == {"1.0", "2.0"}

InitRules ==
  /\ \E cfgs \in RuleCfgSeqs : rules = load_rules(cfgs)
  /\ InitState

\* one add_job call, on the first job, from its rule loop to its last
\* add_scheduled_job
NextRules ==
  \/ \E request \in AllRequests, name \in AllPrjNames,
        version \in AllVersions, srcpkg_done \in BOOLEAN :
        AddJobStart(1, request, name, version, srcpkg_done)
  \/ AddJobPick(1)
  \/ AddJobPut(1)

SpecRules == InitRules /\ [][NextRules]_vars

\* ------------------------------------------- builder selection on its own
\* add_job calls made before start(), on builder queues that already hold
\* up to MaxDepth scheduled jobs of earlier submissions.
MaxDepth == 2

\* a scheduled job of a submission earlier than those of JobIds
Earlier == MaxJobs + 1

RECURSIVE Repeat(_, _)
Repeat(x, n) == IF n = 0 THEN <<>> ELSE <<x>> \o Repeat(x, n - 1)

InitPick ==
  /\ rules = load_rules(RuleCfgs)
  /\ \E depth \in [BuilderSet -> 0..MaxDepth] :
        bq = [b \in BuilderSet |-> Repeat(Earlier, depth[b])]
  /\ InitRest

NextPick ==
  \/ \E j \in JobIds, request \in Requests, name \in PrjNames,
        version \in JobVersions, srcpkg_done \in BOOLEAN :
        AddJobStart(j, request, name, version, srcpkg_done)
  \/ \E j \in JobIds : AddJobPick(j)
  \/ \E j \in JobIds : AddJobPut(j)

SpecPick == InitPick /\ [][NextPick]_vars

\* ------------------------------------- stop() with no concurrent add_job
\* no add_job call is in progress
NoSubmission == \A j \in JobIds : addpc[j] \notin {"pick", "put"}

\* The scheduler with a caller that does not call add_job once it has
\* called stop(), and calls stop() only when its add_job calls have
\* returned.
NextStop ==
  \/ /\ stoppc = "none"
     /\ \/ \E j \in JobIds, request \in Requests, name \in PrjNames,
              version \in JobVersions, srcpkg_done \in BOOLEAN :
              AddJobStart(j, request, name, version, srcpkg_done)
        \/ \E j \in JobIds : AddJobPick(j)
        \/ \E j \in JobIds : AddJobPut(j)
  \/ \E b \in BuilderSet : BuilderGet(b)
  \/ \E b \in BuilderSet, outcome \in BuildOutcomes : ProcessJob(b, outcome)
  \/ CommitGet
  \/ \E reply \in Replies : CommitAdd(reply)
  \/ \E reply \in Replies : CommitRollback(reply)
  \/ \E reply \in Replies : CommitCommit(reply)
  \/ \E raises \in BOOLEAN : CommitNotify(raises)
  \/ Start
  \/ NoSubmission /\ StopCall
  \/ StopJoin
  \/ StopCommitJoin

SpecStop == Init /\ [][NextStop]_vars

\* ------------------------------------------------- lifetime of a BuildJob
\* j is an item of the queue q
InQueue(q, j) == \E i \in 1..Len(q) : q[i] = j

\* items the worker of b has taken off its queue
NumTaken(b) == Len(enq[b]) - Len(bq[b])

\* the local variable scheduled_job of _BuilderQueue.run: the last item
\* queue.get() returned, for as long as the thread runs
BuilderLocal(b) ==
  IF bpc[b] \in {"get", "build"} /\ NumTaken(b) > 0
  THEN enq[b][NumTaken(b)]
  ELSE None

\* the frame of add_job holds its parameter job for as long as the call
\* lasts
CallerHolds(j) == addpc[j] \in {"pick", "put"}

\* mutant: only the frame of add_job keeps the job alive
ReferencedByCallerOnly(j) == CallerHolds(j)

\* some reference to the BuildJob j (directly, or through its
\* _BuildScheduledJob) is left: in a queue, or in a frame of a running
\* thread
Referenced(j) ==
  \/ CallerHolds(j)
  \/ \E b \in BuilderSet : InQueue(bq[b], j) \/ BuilderLocal(b) = j
  \/ InQueue(cq, j)
  \/ cjob = j

\* BuildJob.__del__ has run: job.pkgdir is removed
Removed(j) == addpc[j] # "none" /\ ~Referenced(j)

\* ------------------------------------------------------------ vocabulary
\* the commands of the log that belong to job j, in the order sent
CmdsIn(log, j) == SelectSeq(log, LAMBDA c : c.job = j)
CmdsOf(j) == CmdsIn(sent, j)

\* a _BuildScheduledJob exists for j
HasSJ(j) == addpc[j] \in {"put", "done"}

\* the commit worker has taken j off the commit queue
Dequeued(j) ==
  /\ HasSJ(j)
  /\ sj[j].num_active_build = 0
  /\ \A i \in 1..Len(cq) : cq[i] # j

\* the commit worker is done with j: _process_build_done has returned, or
\* an exception has left it
Concluded(j) == Dequeued(j) /\ ccur # j

\* some sub-build of j has reported a failure
BuildFailed(j) == \E i \in 1..Len(ran[j]) : ~ran[j][i].ok

\* merge_manifests raises for j
MergeFailed(j) ==
  /\ Dequeued(j)
  /\ ~BuildFailed(j)
  /\ job[j].do_upload
  /\ ~MergeManifests(manifests[j]).ok

\* an ADD of j has been rejected
AddRejected(j) ==
  \E i \in 1..Len(CmdsOf(j)) :
     CmdsOf(j)[i].verb = "ADD" /\ ~CmdsOf(j)[i].ok

\* a COMMIT of j has been rejected
CommitRejected(j) ==
  \E i \in 1..Len(CmdsOf(j)) :
     CmdsOf(j)[i].verb = "COMMIT" /\ ~CmdsOf(j)[i].ok

Verbs(j) == {CmdsOf(j)[i].verb : i \in 1..Len(CmdsOf(j))}

\* the archs of j that were sent the verb
ArchsSent(j, verb) ==
  {CmdsOf(j)[i].arch : i \in {k \in 1..Len(CmdsOf(j)) :
                                  CmdsOf(j)[k].verb = verb}}

\* ------------------------------------------------------------------ claims

\* C1: notify_result is invoked at most once per job, never for a job whose
\* archs are empty after rule application, and exactly once for every job
\* the commit worker has been handed and is done with.
C1_NotifiedExactlyOnce ==
  \A j \in JobIds :
     /\ Len(notes[j]) <= 1
     /\ (addpc[j] # "none" /\ job[j].archs = <<>>) => notes[j] = <<>>
     /\ Concluded(j) => Len(notes[j]) = 1

\* the transaction of a fully successful upload: N accepted ADDs in archs
\* order followed by N accepted COMMITs in archs order
SuccessfulTransaction(j) ==
  LET n == Len(job[j].archs)
  IN  [i \in 1..(2 * n) |->
         IF i <= n
         THEN [job |-> j, repo |-> job[j].upload_repo,
               arch |-> job[j].archs[i], verb |-> "ADD", ok |-> TRUE]
         ELSE [job |-> j, repo |-> job[j].upload_repo,
               arch |-> job[j].archs[i - n], verb |-> "COMMIT", ok |-> TRUE]]

\* the hypotheses of C2 as the claim states them: the repositories
\* (upload_repo, a_i) exist, the job is uploaded, every sub-build succeeded
\* and every reply was OK
C2_Hypotheses(j) ==
  /\ Concluded(j)
  /\ \A i \in 1..Len(job[j].archs) :
       ~RepoMissing(job[j].upload_repo, job[j].archs[i])
  /\ job[j].do_upload
  /\ ~BuildFailed(j)
  /\ \A i \in 1..Len(CmdsOf(j)) : CmdsOf(j)[i].ok

\* C2 as claimed: all sub-builds successful, do_upload and every repository
\* replying OK imply that the commands of the job are one ADD per arch in
\* archs order followed by one COMMIT per arch in archs order.
C2_Original ==
  \A j \in JobIds : C2_Hypotheses(j) => CmdsOf(j) = SuccessfulTransaction(j)

\* C2 amended: the same, provided also that the manifest merge succeeds.
C2_SuccessfulTransaction ==
  \A j \in JobIds :
     (C2_Hypotheses(j) /\ MergeManifests(manifests[j]).ok)
     => CmdsOf(j) = SuccessfulTransaction(j)

C2_Witness ==
  \E j \in JobIds :
     /\ C2_Hypotheses(j)
     /\ Len(job[j].archs) = 2
     /\ Len(CmdsOf(j)) = 4

\* C3: once the commit worker is done with a job whose manifest merge
\* failed or one of whose ADDs was rejected, no COMMIT was sent for it,
\* every repository sent ADD was sent ROLLBACK, the archs after the failing
\* one received nothing, and notify_result(false, cause) was invoked.
C3_AddFailureRolledBack ==
  \A j \in JobIds :
     (Concluded(j) /\ (MergeFailed(j) \/ AddRejected(j))) =>
        /\ "COMMIT" \notin Verbs(j)
        /\ ArchsSent(j, "ADD") = ArchsSent(j, "ROLLBACK")
        /\ \A i \in 1..Len(job[j].archs) :
             i > Cardinality(ArchsSent(j, "ADD")) =>
                job[j].archs[i] \notin
                   {CmdsOf(j)[k].arch : k \in 1..Len(CmdsOf(j))}
        /\ Len(notes[j]) = 1
        /\ ~notes[j][1].success

\* C4: once the commit worker is done with a job one of whose COMMITs was
\* rejected, notify_result(false, cause) was invoked for it and no ROLLBACK
\* was sent.
C4_CommitFailureReported ==
  \A j \in JobIds :
     (Concluded(j) /\ CommitRejected(j)) =>
        /\ Len(notes[j]) = 1
        /\ ~notes[j][1].success
        /\ "ROLLBACK" \notin Verbs(j)

\* C5: the commit worker leaves its loop only by dequeuing the sentinel:
\* no failure inside a transaction ends the thread.
C5_WorkerSurvives == cpc # "dead"

C6_Witness ==
  \E j \in JobIds :
     /\ Concluded(j)
     /\ job[j].do_upload
     /\ Len(ran[j]) = 2
     /\ ~ran[j][1].ok
     /\ ran[j][2].ok
     /\ Len(notes[j]) = 1

\* C6: a job one of whose sub-builds reported failure is sent no repository
\* command at all, whatever do_upload and the order of the reports, and
\* its notification is notify_result(false, ...).
C6_BuildFailureNoCommand ==
  \A j \in JobIds :
     BuildFailed(j) =>
        /\ CmdsOf(j) = <<>>
        /\ \A n \in 1..Len(notes[j]) : ~notes[j][n].success
        /\ Concluded(j) => Len(notes[j]) = 1

C7_Witness ==
  \E j \in JobIds :
     /\ Len(notes[j]) = 1
     /\ Len(ran[j]) = 2
     /\ ~ran[j][1].ok
     /\ ~ran[j][2].ok
     /\ ran[j][1].builder = "b2"

\* C7: the message of the notification of a job with failing sub-builds
\* contains the failure report of every failing sub-build, in whatever
\* order the builder workers called build_done.
C7_AllFailuresReported ==
  \A j \in JobIds :
     \A n \in 1..Len(notes[j]) :
        BuildFailed(j) =>
           /\ ~notes[j][n].success
           /\ \A i \in 1..Len(ran[j]) :
                ~ran[j][i].ok =>
                   Contains(notes[j][n].message, ran[j][i].msg)

C8_Witness ==
  \E j \in JobIds :
     /\ Concluded(j)
     /\ ~job[j].do_upload
     /\ ~BuildFailed(j)
     /\ Len(picked[j]) = 2

\* C8: for a job with do_upload = false whose sub-builds all succeeded,
\* every selected builder has run the build, no repository command is sent
\* and the notification is notify_result(true, "Packages upload skipped").
C8_UploadSkipped ==
  \A j \in JobIds :
     (HasSJ(j) /\ ~job[j].do_upload /\ ~BuildFailed(j)) =>
        /\ CmdsOf(j) = <<>>
        /\ Concluded(j) =>
             /\ Len(ran[j]) = Len(picked[j])
             /\ \A i \in 1..Len(picked[j]) :
                  \E k \in 1..Len(ran[j]) : ran[j][k].builder = picked[j][i]
             /\ notes[j] = << [success |-> TRUE,
                               message |-> <<"Packages upload skipped">>] >>

C9_Witness ==
  \E j \in JobIds :
     /\ addpc[j] = "done"
     /\ Len(job[j].archs) = 2
     /\ notes[j] = << [success |-> TRUE] >>

\* notify_result(true) has been invoked for j only with every repository
\* of job.archs having acknowledged COMMIT
C9_CommittedBeforeSuccess ==
  \A j \in JobIds :
     \A n \in 1..Len(notes[j]) :
        notes[j][n] = [success |-> TRUE] =>
           \A i \in 1..Len(job[j].archs) :
              \E k \in 1..Len(CmdsOf(j)) :
                 /\ CmdsOf(j)[k].verb = "COMMIT"
                 /\ CmdsOf(j)[k].arch = job[j].archs[i]
                 /\ CmdsOf(j)[k].ok

\* C9: no command of a job is sent to any repository after the job's
\* notify_result, and notify_result(true, null) is invoked only after
\* COMMIT has been acknowledged by every repository of job.archs.
C9_NotifyAfterTransaction ==
  /\ []C9_CommittedBeforeSuccess
  /\ [][\A j \in JobIds :
          notes[j] # <<>> => CmdsIn(sent', j) = CmdsIn(sent, j)]_vars

\* the rules matching job j, by index
MatchingRules(j) == {i \in 1..Len(rules) : match(rules[i], job[j])}

C10_Witness ==
  \E j \in JobIds :
     /\ addpc[j] # "none"
     /\ Cardinality(MatchingRules(j)) = 2
     /\ \A i \in MatchingRules(j) : \A k \in MatchingRules(j) :
          i # k => rules[i].archs # rules[k].archs

\* C10: after add_job the upload_repo, archs and deps_repos of a job are
\* those of the first rule, in insertion order, that matches it, whatever
\* later rules match; with no matching rule they are the request's.
C10_FirstMatchingRule ==
  \A j \in JobIds :
     addpc[j] # "none" =>
        LET M == MatchingRules(j)
            from == IF M = {} THEN job[j].request
                    ELSE rules[CHOOSE i \in M : \A k \in M : i <= k]
        IN  /\ job[j].upload_repo = from.upload_repo
            /\ job[j].archs = from.archs
            /\ job[j].deps_repos = from.deps_repos

\* ---------------------------------------------------------- vocabulary (2)
\* add_job(j) has gone through its rule loop
Submitted(j) == addpc[j] # "none"

\* the whole system has come to rest: every add_job call has returned and
\* stop() has returned
AllReturned ==
  /\ stoppc = "done"
  /\ \A j \in JobIds : addpc[j] \in {"dropped", "cancelled", "failed", "done"}

C11_Witness ==
  \E j \in JobIds :
     /\ Submitted(j)
     /\ job[j].archs = <<>>
     /\ AllReturned
     /\ \E k \in JobIds : k # j /\ notes[k] # <<>>

\* a job whose archs are empty after the rule loop has no
\* _BuildScheduledJob, is on no builder queue and not on the commit queue,
\* is built by no builder, is never the commit worker's job, is sent no
\* repository command and receives no notification
C11_NothingHappens ==
  \A j \in JobIds :
     (Submitted(j) /\ job[j].archs = <<>>) =>
        /\ addpc[j] = "dropped"
        /\ sj[j] = NoJob
        /\ picked[j] = <<>>
        /\ nput[j] = 0
        /\ \A b \in BuilderSet : ~InQueue(bq[b], j) /\ bcur[b] # j
        /\ ~InQueue(cq, j)
        /\ ccur # j
        /\ ran[j] = <<>>
        /\ CmdsOf(j) = <<>>
        /\ notes[j] = <<>>

\* C11: a job whose archs are empty after rule application is silently
\* dropped: the add_job step that finds them empty leaves every builder
\* queue and the commit queue unchanged, and in every later state the job
\* has no ScheduledJob, no builder runs it and it has no notification.
C11_EmptyArchsDropped ==
  /\ []C11_NothingHappens
  /\ [][\A j \in JobIds :
          (~Submitted(j) /\ addpc'[j] # "none" /\ job'[j].archs = <<>>)
          => (bq' = bq /\ cq' = cq /\ sj' = sj)]_vars

\* position of builder b in the iteration order of builder_queues
BuilderIndex(b) == CHOOSE i \in 1..Len(BuilderNames) : BuilderNames[i] = b

\* q is, among the builder queues of the architecture, one of smallest
\* depth, and the first of these in iteration order
SmallestFirst(q, arch, queues) ==
  /\ BuilderArch[q] = arch
  /\ \A b \in BuilderSet :
       BuilderArch[b] = arch =>
          /\ Len(queues[q]) <= Len(queues[b])
          /\ Len(queues[b]) = Len(queues[q])
               => BuilderIndex(q) <= BuilderIndex(b)

\* the step picks a builder queue for the next architecture of job j
Picks(j) == Len(picked'[j]) = Len(picked[j]) + 1

C12_Witness ==
  \E j \in JobIds :
     /\ addpc[j] = "put"
     /\ nput[j] = 0
     /\ job[j].archs[1] = "x86"
     /\ Len(bq["b1"]) = 2
     /\ bq["b3"] = <<>>
     /\ picked[j][1] = "b3"

\* C12: every builder queue chosen for an architecture of a job is, among
\* the queues whose builder has that architecture, one of smallest depth at
\* the time of the choice, the first of them in builder iteration order;
\* with b1 (x86) of depth 2 and b3 (x86) of depth 0 the choice is b3.
C12_SmallestDepthFirst ==
  [][\A j \in JobIds :
       Picks(j) =>
          LET i == Len(picked'[j])
              arch == job[j].archs[i]
              q == picked'[j][i]
          IN  /\ SmallestFirst(q, arch, bq)
              /\ (arch = "x86" /\ Len(bq["b1"]) = 2 /\ Len(bq["b3"]) = 0)
                   => q = "b3"]_vars

\* some architecture of job j is produced by no builder
NoBuilderArch(j) ==
  \E i \in 1..Len(job[j].archs) :
     \A b \in BuilderSet : BuilderArch[b] # job[j].archs[i]

\* add_job(j) takes a step
AddJobSteps(j) == addpc'[j] # addpc[j] \/ picked'[j] # picked[j]

C13_Witness ==
  \E j \in JobIds :
     /\ addpc[j] = "failed"
     /\ picked[j] # <<>>
     /\ AllReturned
     /\ \E k \in JobIds : k # j /\ notes[k] # <<>>

\* a job with an architecture nobody builds never gets past the builder
\* selection: it has no _BuildScheduledJob, is on no queue, is run by no
\* builder and is not notified
C13_NothingEnqueued ==
  \A j \in JobIds :
     (Submitted(j) /\ NoBuilderArch(j)) =>
        /\ addpc[j] \in {"cancelled", "pick", "failed"}
        /\ sj[j] = NoJob
        /\ nput[j] = 0
        /\ \A b \in BuilderSet : ~InQueue(bq[b], j) /\ bcur[b] # j
        /\ ~InQueue(cq, j)
        /\ ccur # j
        /\ ran[j] = <<>>
        /\ notes[j] = <<>>

\* C13: when an architecture of job.archs has no builder,
\* _schedule_job_for_build fails within add_job, in the caller's thread,
\* and the fan-out is all-or-nothing: no step of that add_job call changes
\* a builder queue or the commit queue, also for the architectures that do
\* have a builder, and the job is never enqueued nor handed to the commit
\* worker; once every architecture before the one without builder has been
\* given its queue the call has failed.
C13_AllOrNothing ==
  /\ []C13_NothingEnqueued
  /\ [][\A j \in JobIds :
          (AddJobSteps(j) /\ Submitted(j)' /\ NoBuilderArch(j)')
          => /\ bq' = bq /\ cq' = cq
             /\ (addpc[j] = "pick" /\ ~Picks(j)) => addpc'[j] = "failed"]_vars

\* number of items of the sequence q that satisfy Test
CountIf(q, Test(_)) == Cardinality({i \in 1..Len(q) : Test(q[i])})

\* add_scheduled_job calls made so far that put job j on the queue of b
PutsOn(b, j) ==
  CountIf(SubSeq(picked[j], 1, nput[j]), LAMBDA x : x = b)

\* times the worker of b has taken job j off its queue
DequeuedBy(b, j) == PutsOn(b, j) - CountIf(bq[b], LAMBDA x : x = j)

\* build_done calls the worker of b has made for job j
ReportsBy(b, j) == CountIf(ran[j], LAMBDA r : r.builder = b)

C14_Witness ==
  \E b \in BuilderSet :
     /\ bpc[b] = "build"
     /\ bcur[b] = 2
     /\ \E i \in 1..Len(ran[1]) : ran[1][i].builder = b /\ ~ran[1][i].ok

\* every job a worker has dequeued has had its build_done from that worker
\* exactly once, but for the one the worker is building; the reports the
\* _BuildScheduledJob has received are those of the builds in the order
\* they ended, with success = false exactly for the builds that raised
C14_OneReportPerDequeue ==
  \A j \in JobIds :
     /\ \A b \in BuilderSet :
          DequeuedBy(b, j) = ReportsBy(b, j) + (IF bcur[b] = j THEN 1 ELSE 0)
     /\ HasSJ(j) =>
          /\ sj[j].feedback_msgs = [i \in 1..Len(ran[j]) |-> ran[j][i].msg]
          /\ sj[j].success = (\A i \in 1..Len(ran[j]) : ran[j][i].ok)
          /\ \A i \in 1..Len(ran[j]) :
               ran[j][i].msg = IF ran[j][i].ok
                               THEN SucceedMsg(ran[j][i].builder)
                               ELSE FailedMsg(ran[j][i].builder, "boom")

\* C14: a builder worker calls build_done exactly once for every
\* ScheduledJob it dequeues, with success = true when builder.build
\* returned and success = false when it raised; the worker ends only by
\* dequeuing the sentinel, and after a build, failed or not, it is back at
\* its queue.
C14_BuildDoneOncePerDequeue ==
  /\ []C14_OneReportPerDequeue
  /\ [][\A b \in BuilderSet :
          /\ (bpc[b] = "build" /\ bpc'[b] # "build") =>
                /\ bpc'[b] = "get"
                /\ Len(sj'[bcur[b]].feedback_msgs) =
                     Len(sj[bcur[b]].feedback_msgs) + 1
          /\ (bpc[b] # "stopped" /\ bpc'[b] = "stopped") =>
                (bq[b] # <<>> /\ Head(bq[b]) = None)]_vars

C15_Witness ==
  \E b \in BuilderSet :
     /\ enq[b] = <<2, 1>>
     /\ bpc[b] = "build"
     /\ bcur[b] = 1
     /\ ReportsBy(b, 2) = 1

\* what is still queued on b is the end of the enqueue order, and the
\* worker of b has at most one build that has not reported: the last item
\* it took
C15_QueuedIsSuffix ==
  \A b \in BuilderSet :
     /\ NumTaken(b) >= 0
     /\ bq[b] = SubSeq(enq[b], NumTaken(b) + 1, Len(enq[b]))
     /\ \A i \in 1..NumTaken(b) :
          enq[b][i] # None =>
             \/ ReportsBy(b, enq[b][i]) >= 1
             \/ i = NumTaken(b) /\ bpc[b] = "build" /\ bcur[b] = enq[b][i]

\* C15: on each builder queue the builds start in the order of the
\* add_scheduled_job calls, whichever submitters made them, one at a time:
\* the job a worker starts to build is the oldest enqueued item it has not
\* taken yet, and every job it took before has reported build_done.
C15_BuiltInEnqueueOrder ==
  /\ []C15_QueuedIsSuffix
  /\ [][\A b \in BuilderSet :
          (bpc[b] # "build" /\ bpc'[b] = "build") =>
             /\ bcur'[b] = enq[b][NumTaken(b) + 1]
             /\ \A i \in 1..NumTaken(b) : ReportsBy(b, enq[b][i]) >= 1]_vars

\* the fan-out of job j is complete: every add_scheduled_job call is made
Enqueued(j) == addpc[j] = "done"

\* stop() has returned with all threads ended and every enqueued job
\* built on all its architectures
C16_Drained ==
  stoppc = "done" =>
     /\ \A b \in BuilderSet : bpc[b] = "stopped" /\ bq[b] = <<>>
     /\ cpc \in {"stopped", "dead"}
     /\ \A j \in JobIds :
          Enqueued(j) =>
             /\ Len(ran[j]) = Len(job[j].archs)
             /\ sj[j].num_active_build = 0

\* the sentinel of the commit queue is put after the last builder worker
\* has ended
C16_SentinelLast ==
  InQueue(cq, None) => \A b \in BuilderSet : bpc[b] = "stopped"

\* C16: when stop() is called after start() with no add_job concurrent to
\* it, at its return every builder worker and the commit worker have
\* exited and every job enqueued before has been built on all its
\* architectures, has gone through its commit transaction and has been
\* notified; the commit-queue sentinel is enqueued only after all builder
\* workers have been joined.
C16_StopDrains ==
  /\ C16_Drained
  /\ C16_SentinelLast
  /\ stoppc = "done" =>
        \A j \in JobIds :
           Enqueued(j) => (Concluded(j) /\ Len(notes[j]) = 1)

\* what holds of C16 whatever the replies: the builds are drained; and the
\* commits and notifications too when the commit worker has left its loop
\* by the sentinel
C16_DrainsButForDeath ==
  /\ C16_Drained
  /\ C16_SentinelLast
  /\ (stoppc = "done" /\ cpc = "stopped") =>
        \A j \in JobIds :
           Enqueued(j) => (Concluded(j) /\ Len(notes[j]) = 1)

\* C17: a job enqueued on a builder queue while stop() is under way, before
\* the worker of that queue has processed the sentinel, is still built by
\* that worker: when the worker processes the sentinel, and ends, every job
\* enqueued on its queue so far has been built by it.
C17_EnqueuedBeforeSentinelBuilt ==
  [][\A b \in BuilderSet :
       (bpc[b] # "stopped" /\ bpc'[b] = "stopped") =>
          \A i \in 1..Len(enq[b]) :
             enq[b][i] # None => ReportsBy(b, enq[b][i]) >= 1]_vars

\* job j has had its terminal outcome: add_job returned without scheduling
\* it, or the commit worker is done with it
Terminal(j) ==
  \/ addpc[j] \in {"dropped", "cancelled", "failed"}
  \/ Concluded(j)

\* a builder or the commit worker is using the pkgdir of j, or will
InUse(j) ==
  \/ \E b \in BuilderSet : InQueue(bq[b], j) \/ bcur[b] = j
  \/ InQueue(cq, j)
  \/ ccur = j

\* a worker that is done with j still has it in the variables of its loop
Lingers(j) == cjob = j \/ \E b \in BuilderSet : BuilderLocal(b) = j

\* C18 as claimed: the pkgdir of a job is removed once the job has had its
\* terminal outcome, on every exit path, and is never removed while a
\* builder or the commit transaction uses it.
C18_Original ==
  \A j \in JobIds :
     /\ Terminal(j) => Removed(j)
     /\ Removed(j) => ~InUse(j)

C18_Witness ==
  \E j \in JobIds :
     /\ notes[j] = << [success |-> TRUE] >>
     /\ Removed(j)
     /\ stoppc = "none"
     /\ cpc \notin {"stopped", "dead"}

\* C18 amended: the pkgdir of a job is never removed before the job's
\* terminal outcome (so never while a builder or the commit transaction
\* uses it); after the terminal outcome, on every exit path, nothing keeps
\* it but the loop variables of the workers that handled the job, and it
\* is removed once these have taken their next item or ended, at the
\* latest when stop() has returned.
C18_RemovedWhenReleased ==
  \A j \in JobIds :
     /\ Removed(j) => (Terminal(j) /\ ~InUse(j))
     /\ (Terminal(j) /\ ~Lingers(j)) => Removed(j)
     /\ (Terminal(j) /\ stoppc = "done") => Removed(j)

\* N of the _BuildScheduledJob of j
NumBuild(j) == Len(job[j].archs)

\* the conjunction of the results the sub-builds of j have reported
AllOk(log) == \A i \in 1..Len(log) : log[i].ok

C19_Witness ==
  \E j \in JobIds :
     /\ InQueue(cq, j)
     /\ Len(ran[j]) = 2
     /\ ran[j][1].builder = "b2"
     /\ ran[j][1].ok
     /\ ~ran[j][2].ok

\* a job is on the commit queue at most once, and it is, or was, there
\* only with all N sub-builds reported
C19_OnQueueAllReported ==
  \A j \in JobIds :
     /\ CountIf(cq, LAMBDA x : x = j) <= 1
     /\ (InQueue(cq, j) \/ ccur = j \/ cjob = j) =>
          /\ HasSJ(j)
          /\ sj[j].num_active_build = 0
          /\ Len(ran[j]) = NumBuild(j)
          /\ Len(sj[j].feedback_msgs) = NumBuild(j)
          /\ sj[j].success = AllOk(ran[j])

\* C19: under every interleaving of the build_done calls of the builder
\* workers, the ScheduledJob is put on the commit queue exactly once: by
\* the call that brings num_active_build to zero and by no other step, so
\* never before all N sub-builds have reported; at that moment success is
\* the conjunction of the N results and feedback_msgs holds N messages.
C19_PutOnceByLastReport ==
  /\ []C19_OnQueueAllReported
  /\ [][\A j \in JobIds :
          LET last == /\ HasSJ(j)
                      /\ sj[j].num_active_build = 1
                      /\ sj'[j].num_active_build = 0
          IN  /\ last =>
                   /\ cq' = Append(cq, j)
                   /\ Len(sj'[j].feedback_msgs) = NumBuild(j)
                   /\ sj'[j].success = AllOk(ran'[j])
                   /\ Len(ran'[j]) = NumBuild(j)
              /\ (CountIf(cq', LAMBDA x : x = j) >
                    CountIf(cq, LAMBDA x : x = j)) => last]_vars

C20_Witness ==
  \E j \in JobIds :
     /\ HasSJ(j)
     /\ NumBuild(j) = 2
     /\ sj[j].num_active_build = 0
     /\ ~sj[j].success
     /\ ~ran[j][1].ok
     /\ ran[j][2].ok

\* the state of every _BuildScheduledJob
C20_JoinState ==
  \A j \in JobIds :
     HasSJ(j) =>
        /\ sj[j].num_active_build \in 0..NumBuild(j)
        /\ Len(sj[j].feedback_msgs) + sj[j].num_active_build = NumBuild(j)
        /\ sj[j].success = AllOk(ran[j])
        /\ Len(ran[j]) = Len(sj[j].feedback_msgs)

\* C20: for every ScheduledJob, in every reachable state,
\* 0 <= num_active_build <= N and len(feedback_msgs) + num_active_build
\* = N, and success is false iff a recorded report was a failure; in every
\* step num_active_build does not increase, feedback_msgs only grows and
\* success does not go from false to true.
C20_JoinMonotonic ==
  /\ []C20_JoinState
  /\ [][\A j \in JobIds :
          (HasSJ(j) /\ HasSJ(j)') =>
             /\ sj'[j].num_active_build <= sj[j].num_active_build
             /\ Len(sj'[j].feedback_msgs) >= Len(sj[j].feedback_msgs)
             /\ SubSeq(sj'[j].feedback_msgs, 1, Len(sj[j].feedback_msgs))
                  = sj[j].feedback_msgs
             /\ ~sj[j].success => ~sj'[j].success]_vars

\* the repositories of the configuration, as (name, arch) pairs
Repos ==
  UNION { { <<r, a>> : a \in SeqToSet(RepoArchs[r]) } :
          r \in SeqToSet(RepoNames) }

\* command c was written to the subprocess of repository rp
OnRepo(c, rp) == c.repo = rp[1] /\ c.arch = rp[2]

\* after the commands of log, repository rp holds a staged ADD: an accepted
\* ADD that no later accepted COMMIT or ROLLBACK of rp has ended
Staged(log, rp) ==
  \E i \in 1..Len(log) :
     /\ OnRepo(log[i], rp)
     /\ log[i].verb = "ADD"
     /\ log[i].ok
     /\ \A k \in (i + 1)..Len(log) :
          ~(/\ OnRepo(log[k], rp)
            /\ log[k].verb \in {"COMMIT", "ROLLBACK"}
            /\ log[k].ok)

\* the commands of each job are one block of the log
NoInterleaving(log) ==
  \A i, k, l \in 1..Len(log) :
     (i < k /\ k < l /\ log[i].job = log[l].job) => log[k].job = log[i].job

\* the commit worker waits on its queue, or is about to take its next item
CommitWorkerIdle == cpc = "get"

C21_Witness ==
  /\ CommitWorkerIdle
  /\ \E j1, j2 \in JobIds, rp \in Repos :
        /\ j1 # j2
        /\ Len(CmdsOf(j1)) = 4
        /\ Len(CmdsOf(j2)) >= 2
        /\ "ROLLBACK" \in Verbs(j2)
        /\ \E i \in 1..Len(CmdsOf(j1)) : OnRepo(CmdsOf(j1)[i], rp)
        /\ \E i \in 1..Len(CmdsOf(j2)) : OnRepo(CmdsOf(j2)[i], rp)

\* the state part of C21
C21_NothingStagedWhenIdle ==
  /\ NoInterleaving(sent)
  /\ CommitWorkerIdle => \A rp \in Repos : ~Staged(sent, rp)

\* C21: repository commands are written only by the commit worker, for the
\* job of the one ScheduledJob it is processing, so the commands of two jobs
\* never interleave in the log (hence on no repository); and whenever the
\* commit worker waits on its queue or takes a new ScheduledJob off it, no
\* repository holds an accepted ADD that was neither committed nor rolled
\* back.
C21_SingleWriterNothingStaged ==
  /\ []C21_NothingStagedWhenIdle
  /\ [][(sent' # sent) =>
          /\ cpc \in {"add", "rollback", "commit"}
          /\ Len(sent') = Len(sent) + 1
          /\ SubSeq(sent', 1, Len(sent)) = sent
          /\ sent'[Len(sent')].job = ccur
          /\ ccur \in JobIds]_vars

\* the archs of the commands of j with the verb, in the order sent
ArchSeq(j, verb) ==
  LET cs == SelectSeq(CmdsOf(j), LAMBDA c : c.verb = verb)
  IN  [i \in 1..Len(cs) |-> cs[i].arch]

IsPrefix(s, t) == Len(s) <= Len(t) /\ SubSeq(t, 1, Len(s)) = s

\* a ROLLBACK of j has been rejected
RollbackRejected(j) ==
  \E i \in 1..Len(CmdsOf(j)) :
     CmdsOf(j)[i].verb = "ROLLBACK" /\ ~CmdsOf(j)[i].ok

\* what holds of C22 whatever the replies: a repository is recorded before
\* its ADD is sent, and ROLLBACK goes to the recorded repositories in the
\* order they were recorded, starting after the rejected ADD
C22_ForwardOrder ==
  /\ cpc \in {"add", "rollback", "commit"} =>
        modified = ArchSeq(ccur, "ADD")
  /\ \A j \in JobIds :
        /\ IsPrefix(ArchSeq(j, "ROLLBACK"), ArchSeq(j, "ADD"))
        /\ ArchSeq(j, "ROLLBACK") # <<>> =>
             /\ AddRejected(j)
             /\ CmdsOf(j) = SelectSeq(CmdsOf(j), LAMBDA c : c.verb = "ADD")
                              \o SelectSeq(CmdsOf(j),
                                           LAMBDA c : c.verb = "ROLLBACK")

\* C22: during add-failure handling ROLLBACK is sent in staging order to
\* the repositories recorded so far, the repository whose ADD was rejected
\* included; and if one of these ROLLBACKs is itself rejected, then once the
\* commit worker is done with the job the remaining recorded repositories
\* have received their ROLLBACK and notify_result(false, ...) was invoked.
C22_RollbackFailureTolerated ==
  /\ C22_ForwardOrder
  /\ \A j \in JobIds :
        (Concluded(j) /\ AddRejected(j) /\ RollbackRejected(j)) =>
           /\ ArchSeq(j, "ROLLBACK") = ArchSeq(j, "ADD")
           /\ Len(notes[j]) = 1
           /\ ~notes[j][1].success

====
